---- MODULE Spec2Model ----
(***************************************************************************)
(* The one-billion-rows aggregation pipeline of src/src/main.rs: a         *)
(* producer thread that carves the input file into newline-aligned         *)
(* chunks (StrBuffer::read_from), a bounded crossbeam channel, N worker    *)
(* threads (process_lines), and the coordinator (calculate /               *)
(* combine_results) that joins the workers, merges their maps and writes  *)
(* the output. The generator's independent expected-result computation     *)
(* (src/generator/src/main.rs) is modelled as a pure operator.             *)
(*                                                                         *)
(* Bytes are one-character strings. f32 values are modelled exactly on the *)
(* multiples of 1/2: a value is the integer number of halves it holds, and *)
(* every f32 operation rounds to 24 significant bits, ties to even, as     *)
(* IEEE-754 binary32 does.                                                 *)
(***************************************************************************)
EXTENDS Integers, Sequences, FiniteSets, Bags, TLC

(***************************************************************************)
(* Bounds of the model.                                                    *)
(***************************************************************************)
\* Block capacity of the reader. The program's value is 4096
\* (src/src/main.rs:36); the model scales it down so that files of a few
\* lines span several blocks.
BLOCK_SIZE == 12
\* Largest number of newline-terminated lines of an input file.
MaxLines == 3
\* Largest value of Args.threads.
MaxThreads == 2
\* Largest number of lines a worker has processed where the model draws
\* the workers' maps directly.
MaxPartLines == 1

\* Capacity of the dispatch channel, bounded(10).
QUEUE_CAP == 10

(***************************************************************************)
(* Bytes and text                                                          *)
(***************************************************************************)
NL == "\n"
SEMI == ";"
\* A byte that can occur in no UTF-8 text (0xFF).
BAD_BYTE == "0xFF"

\* F(e) with e evaluated once: x ranges over the one value of e.
Eval(F(_), e) == CHOOSE y \in {F(x) : x \in {e}} : TRUE

Min2(a, b) == IF a <= b THEN a ELSE b
Abs(n) == IF n < 0 THEN -n ELSE n

RECURSIVE Pow2(_)
Pow2(k) == IF k = 0 THEN 1 ELSE 2 * Pow2(k - 1)

RECURSIVE Concat(_)
\* Concatenation of a sequence of byte sequences.
Concat(ss) == IF ss = <<>> THEN <<>> ELSE Head(ss) \o Concat(Tail(ss))

\* The value of a decimal digit byte.
DigitVal(b) ==
    CASE b = "0" -> 0 [] b = "1" -> 1 [] b = "2" -> 2 [] b = "3" -> 3
      [] b = "4" -> 4 [] b = "5" -> 5 [] b = "6" -> 6 [] b = "7" -> 7
      [] b = "8" -> 8 [] b = "9" -> 9

IsDigit(b) == b \in {"0", "1", "2", "3", "4", "5", "6", "7", "8", "9"}

\* The byte value, for the byte-wise order of str.
ByteCode(b) ==
    CASE b = NL -> 10 [] b = "-" -> 45 [] b = "." -> 46 [] b = SEMI -> 59
      [] b = "B" -> 66 [] b = "a" -> 97 [] b = "b" -> 98 [] b = "x" -> 120
      [] b = BAD_BYTE -> 255
      [] IsDigit(b) -> 48 + DigitVal(b)

RECURSIVE StrLess(_, _)
\* s < t in the byte-wise lexicographic order of str (Ord for str).
StrLess(s, t) ==
    IF t = <<>> THEN FALSE
    ELSE IF s = <<>> THEN TRUE
    ELSE IF ByteCode(Head(s)) # ByteCode(Head(t))
         THEN ByteCode(Head(s)) < ByteCode(Head(t))
    ELSE StrLess(Tail(s), Tail(t))

(***************************************************************************)
(* StrBuffer::read_from                                                    *)
(***************************************************************************)
\* File::read into a BLOCK_SIZE buffer at the cursor: the bytes read.
FileRead(f, cursor) ==
    SubSeq(f, cursor + 1, Min2(cursor + BLOCK_SIZE, Len(f)))

RECURSIVE RevScan(_, _, _)
\* The scan of rev().position from index i down: the distance from the end
\* of the first b met, -1 when the start is passed.
RevScan(raw, b, i) ==
    IF i = 0 THEN -1
    ELSE IF raw[i] = b THEN Len(raw) - i
    ELSE RevScan(raw, b, i - 1)

\* raw.iter().rev().position(|c| c == b): the distance of the last b from
\* the end, -1 for None.
RevPosition(raw, b) == RevScan(raw, b, Len(raw))

\* from_utf8(..).is_ok(): no byte of the slice is outside UTF-8.
IsUtf8(s) == \A i \in 1..Len(s) : s[i] # BAD_BYTE

\* read_from without the seek back to the byte after the last newline.
read_from_noseek(f, cursor) ==
    LET raw == FileRead(f, cursor)
        full_size == Len(raw)
        pos == RevPosition(raw, NL)
    IN  IF full_size = 0 THEN [tag |-> "None", cursor |-> cursor]
        ELSE IF pos = -1 THEN [tag |-> "PanicNl", cursor |-> cursor + full_size]
        ELSE LET last_nl == full_size - 1 - pos
             IN  IF ~IsUtf8(SubSeq(raw, 1, last_nl + 1))
                 THEN [tag |-> "PanicUtf8", cursor |-> cursor + full_size]
                 ELSE [tag |-> "Some",
                       chunk |-> [raw_data |-> raw, size |-> last_nl + 1],
                       cursor |-> cursor + full_size]

\* read_from handing out every byte read, with the seek still made.
read_from_whole(f, cursor) ==
    LET raw == FileRead(f, cursor)
        full_size == Len(raw)
        pos == RevPosition(raw, NL)
    IN  IF full_size = 0 THEN [tag |-> "None", cursor |-> cursor]
        ELSE IF pos = -1 THEN [tag |-> "PanicNl", cursor |-> cursor + full_size]
        ELSE LET last_nl == full_size - 1 - pos
             IN  IF ~IsUtf8(SubSeq(raw, 1, last_nl + 1))
                 THEN [tag |-> "PanicUtf8", cursor |-> cursor + full_size]
                 ELSE [tag |-> "Some",
                       chunk |-> [raw_data |-> raw, size |-> full_size],
                       cursor |-> cursor + full_size
                                    - (full_size - last_nl - 1)]

\* read_from handing out a block without a newline as a chunk.
read_from_truncate(f, cursor) ==
    LET raw == FileRead(f, cursor)
        full_size == Len(raw)
        pos == RevPosition(raw, NL)
    IN  IF full_size = 0 THEN [tag |-> "None", cursor |-> cursor]
        ELSE IF pos = -1
             THEN [tag |-> "Some",
                   chunk |-> [raw_data |-> raw, size |-> full_size],
                   cursor |-> cursor + full_size]
        ELSE LET last_nl == full_size - 1 - pos
             IN  IF ~IsUtf8(SubSeq(raw, 1, last_nl + 1))
                 THEN [tag |-> "PanicUtf8", cursor |-> cursor + full_size]
                 ELSE [tag |-> "Some",
                       chunk |-> [raw_data |-> raw, size |-> last_nl + 1],
                       cursor |-> cursor + full_size
                                    - (full_size - last_nl - 1)]

\* read_from seeking back over the whole block (full_size bytes).
read_from_rewind(f, cursor) ==
    LET raw == FileRead(f, cursor)
        full_size == Len(raw)
        pos == RevPosition(raw, NL)
    IN  IF full_size = 0 THEN [tag |-> "None", cursor |-> cursor]
        ELSE IF pos = -1 THEN [tag |-> "PanicNl", cursor |-> cursor + full_size]
        ELSE LET last_nl == full_size - 1 - pos
             IN  IF ~IsUtf8(SubSeq(raw, 1, last_nl + 1))
                 THEN [tag |-> "PanicUtf8", cursor |-> cursor + full_size]
                 ELSE [tag |-> "Some",
                       chunk |-> [raw_data |-> raw, size |-> last_nl + 1],
                       cursor |-> cursor + full_size - full_size]

\* read_from seeking back one byte too far (full_size - last_nl bytes).
read_from_seek_far(f, cursor) ==
    LET raw == FileRead(f, cursor)
        full_size == Len(raw)
        pos == RevPosition(raw, NL)
    IN  IF full_size = 0 THEN [tag |-> "None", cursor |-> cursor]
        ELSE IF pos = -1 THEN [tag |-> "PanicNl", cursor |-> cursor + full_size]
        ELSE LET last_nl == full_size - 1 - pos
             IN  IF ~IsUtf8(SubSeq(raw, 1, last_nl + 1))
                 THEN [tag |-> "PanicUtf8", cursor |-> cursor + full_size]
                 ELSE [tag |-> "Some",
                       chunk |-> [raw_data |-> raw, size |-> last_nl + 1],
                       cursor |-> cursor + full_size
                                    - (full_size - last_nl)]

\* The value of StrBuffer::read_from at a cursor: tag "None", "Some" (with
\* the chunk and the cursor after the seek), "PanicNl" (no newline in the
\* bytes read) or "PanicUtf8" (from_utf8 fails). raw_data holds the bytes
\* read (the zero padding of the buffer is left out), size is last_nl + 1.
read_from(f, cursor) ==
    LET raw == FileRead(f, cursor)
        full_size == Len(raw)
        pos == RevPosition(raw, NL)
    IN  IF full_size = 0 THEN [tag |-> "None", cursor |-> cursor]
        ELSE IF pos = -1 THEN [tag |-> "PanicNl", cursor |-> cursor + full_size]
        ELSE LET last_nl == full_size - 1 - pos
             IN  IF ~IsUtf8(SubSeq(raw, 1, last_nl + 1))
                 THEN [tag |-> "PanicUtf8", cursor |-> cursor + full_size]
                 ELSE [tag |-> "Some",
                       chunk |-> [raw_data |-> raw, size |-> last_nl + 1],
                       cursor |-> cursor + full_size
                                    - (full_size - last_nl - 1)]

\* Deref for StrBuffer: the valid region as text.
Deref(chunk) == SubSeq(chunk.raw_data, 1, chunk.size)

(***************************************************************************)
(* str::lines, str::split                                                  *)
(***************************************************************************)
\* The pieces of s between occurrences of byte b (str::split): cuts holds
\* the indices of the occurrences and the two ends, and the k-th piece
\* lies between the k-th cut and the next. Always at least one piece.
SplitOn(s, b) ==
    Eval(LAMBDA cuts :
            [k \in 1..(Cardinality(cuts) - 1) |->
                Eval(LAMBDA p :
                        SubSeq(s, p + 1,
                               (CHOOSE q \in cuts :
                                   /\ q > p
                                   /\ \A r \in cuts : r > p => q <= r) - 1),
                     CHOOSE p \in cuts :
                         Cardinality({q \in cuts : q < p}) = k - 1)],
         {i \in 1..Len(s) : s[i] = b} \cup {0, Len(s) + 1})

\* line.split(';')
Split(line) == SplitOn(line, SEMI)

\* str::lines: the pieces between newlines, without the empty piece after
\* a final newline. (No carriage return occurs in the modelled bytes.)
Lines(text) ==
    Eval(LAMBDA pieces :
            IF pieces[Len(pieces)] = <<>>
            THEN SubSeq(pieces, 1, Len(pieces) - 1)
            ELSE pieces,
         SplitOn(text, NL))

(***************************************************************************)
(* f32 on the multiples of 1/2: the integer n stands for n/2               *)
(***************************************************************************)
\* 2^24: an f32 significand holds 24 bits.
F32_MANT == 16777216

\* num/den rounded to the nearest integer, ties to the even one
\* (num >= 0, den > 0).
RoundHalfEven(num, den) ==
    Eval(LAMBDA n :
            LET q == n \div den
                r == n % den
            IN  IF 2 * r > den \/ (2 * r = den /\ q % 2 = 1)
                THEN q + 1
                ELSE q,
         num)

RECURSIVE F32Shift(_, _)
\* The least k >= 0 with mag < 2^24 * 2^k: the bits mag has beyond the
\* significand.
F32Shift(mag, k) ==
    IF mag < F32_MANT * Pow2(k) THEN k ELSE F32Shift(mag, k + 1)

\* The f32 nearest to n/2, ties to even (round-to-nearest-even of IEEE-754).
RoundF32(n) ==
    Eval(LAMBDA unit :
            LET mag == RoundHalfEven(Abs(n), unit) * unit
            IN  IF n < 0 THEN -mag ELSE mag,
         Pow2(F32Shift(Abs(n), 0)))

\* a + b in f32.
F32Add(a, b) == RoundF32(a + b)

RECURSIVE DecVal(_, _)
\* The number a string of decimal digits denotes, acc being the value of
\* the digits already read.
DecVal(digits, acc) ==
    IF digits = <<>> THEN acc
    ELSE DecVal(Tail(digits), 10 * acc + DigitVal(Head(digits)))

AllDigits(s) == \A i \in 1..Len(s) : IsDigit(s[i])

\* The halves in a fraction 0.d1d2...: 0 for zeros only, 1 for a 5 followed
\* by zeros only. No other fraction occurs in the modelled inputs (it would
\* not be a multiple of 1/2), and none is given a value here.
FracHalves(digits) ==
    CASE \A i \in 1..Len(digits) : digits[i] = "0" -> 0
      [] /\ Len(digits) >= 1
         /\ digits[1] = "5"
         /\ \A i \in 2..Len(digits) : digits[i] = "0" -> 1

\* <f32 as FromStr>::from_str on the modelled bytes: an optional '-', then
\* digits with at most one '.', at least one digit in all. ok is FALSE for
\* Err; val is the parsed value in halves, rounded to f32.
ParseF32(text) ==
    LET neg == text # <<>> /\ Head(text) = "-"
        body == IF neg THEN Tail(text) ELSE text
    IN  Eval(LAMBDA parts :
                LET int == parts[1]
                    frac == IF Len(parts) = 2 THEN parts[2] ELSE <<>>
                    good == /\ Len(parts) <= 2
                            /\ AllDigits(int)
                            /\ AllDigits(frac)
                            /\ Len(int) + Len(frac) >= 1
                IN  IF ~good THEN [ok |-> FALSE, val |-> 0]
                    ELSE Eval(LAMBDA mag :
                                 [ok |-> TRUE,
                                  val |-> IF neg THEN -mag ELSE mag],
                              RoundF32(2 * DecVal(int, 0) + FracHalves(frac))),
             SplitOn(body, "."))

(***************************************************************************)
(* {:.1} of an f32: the text, held as its sign and its number of tenths    *)
(***************************************************************************)
\* {:.1} of the f32 n/2: exact, since a half is five tenths.
Fmt1(n) == [neg |-> n < 0, tenths |-> 5 * Abs(n)]

RECURSIVE DivScale(_, _, _)
\* Scales num/den by powers of two into [2^23, 2^24): the scaled fraction
\* and e, where num/den of the call = (scaled num/den) / 2^e.
DivScale(num, den, e) ==
    IF num >= den * F32_MANT THEN DivScale(num, 2 * den, e - 1)
    ELSE IF 2 * num < den * F32_MANT THEN DivScale(2 * num, den, e + 1)
    ELSE [num |-> num, den |-> den, e |-> e]

\* {:.1} of (sum / count as f32), sum in halves: the quotient rounded to
\* f32 (significand m, value m / 2^e), then its exact value rounded to one
\* fractional digit, ties to even (core::num::flt2dec format_exact).
FmtAvg(sum, count) ==
    IF sum = 0 THEN [neg |-> FALSE, tenths |-> 0]
    ELSE Eval(LAMBDA sc :
                 Eval(LAMBDA m :
                         [neg |-> sum < 0,
                          tenths |-> IF sc.e >= 0
                                     THEN RoundHalfEven(10 * m, Pow2(sc.e))
                                     ELSE 10 * m * Pow2(-sc.e)],
                      RoundHalfEven(sc.num, sc.den)),
              DivScale(Abs(sum), 2 * count, 0))

(***************************************************************************)
(* CityEntry and the maps: a HashMap<String, CityEntry> is a function from *)
(* its keys (byte sequences) to records                                    *)
(***************************************************************************)
EmptyMap == << >>

\* CityEntry::default(): #[derive(Default)] gives 0.0, 0.0, 0.0, 0.
CityEntryDefault == [min |-> 0, max |-> 0, sum |-> 0, count |-> 0]

\* The update of an entry by one value (process_lines).
UpdateEntry(entry, value) ==
    [min |-> IF entry.min > value THEN value ELSE entry.min,
     max |-> IF entry.max < value THEN value ELSE entry.max,
     sum |-> F32Add(entry.sum, value),
     count |-> entry.count + 1]

\* One iteration of the for loop of process_lines: ok is FALSE when an
\* expect fails (the thread panics), else map is the updated map.
ProcessLine(result, line) ==
    Eval(LAMBDA parts :
            IF Len(parts) < 2 THEN [ok |-> FALSE, map |-> result]
            ELSE Eval(LAMBDA value :
                         IF ~value.ok THEN [ok |-> FALSE, map |-> result]
                         ELSE LET city == parts[1]
                                  was == IF city \in DOMAIN result
                                         THEN result[city]
                                         ELSE CityEntryDefault
                              IN  [ok |-> TRUE,
                                   map |-> [k \in DOMAIN result \cup {city} |->
                                              IF k = city
                                              THEN UpdateEntry(was, value.val)
                                              ELSE result[k]]],
                      ParseF32(parts[2])),
         Split(line))

RECURSIVE ProcessLines(_, _)
\* The for loop of process_lines over the lines of one chunk, stopping at
\* the first panic.
ProcessLines(result, lines) ==
    IF lines = <<>> THEN [ok |-> TRUE, map |-> result]
    ELSE Eval(LAMBDA r :
                 IF r.ok THEN ProcessLines(r.map, Tail(lines)) ELSE r,
              ProcessLine(result, Head(lines)))

\* The body of the loop of process_lines for one received chunk.
ProcessChunk(result, chunk) ==
    Eval(LAMBDA lines : ProcessLines(result, lines), Lines(Deref(chunk)))

\* and_modify of combine_results.
MergeEntry(full_data, p_data) ==
    [min |-> IF full_data.min > p_data.min THEN p_data.min ELSE full_data.min,
     max |-> IF full_data.max < p_data.max THEN p_data.max ELSE full_data.max,
     sum |-> F32Add(full_data.sum, p_data.sum),
     count |-> full_data.count + p_data.count]

\* combine_results with a plain insert: the partial's entry replaces the
\* result's.
CombineOverwrite(result, partial) ==
    [k \in DOMAIN result \cup DOMAIN partial |->
        IF k \in DOMAIN partial THEN partial[k] ELSE result[k]]

\* The inner loop of combine_results for one joined partial: each key of
\* the partial is merged into, or inserted in, the result.
Combine(result, partial) ==
    [k \in DOMAIN result \cup DOMAIN partial |->
        IF k \notin DOMAIN partial THEN result[k]
        ELSE IF k \in DOMAIN result THEN MergeEntry(result[k], partial[k])
        ELSE partial[k]]

(***************************************************************************)
(* The output of calculate                                                 *)
(***************************************************************************)
\* The least string of a non-empty set.
MinStr(S) == CHOOSE s \in S : \A t \in S : t = s \/ StrLess(s, t)

\* The greatest string of a non-empty set.
MaxStr(S) == CHOOSE s \in S : \A t \in S : t = s \/ StrLess(t, s)

RECURSIVE SortStrsDescending(_)
\* The keys sorted with the comparison reversed.
SortStrsDescending(S) ==
    IF S = {} THEN <<>>
    ELSE <<MaxStr(S)>> \o SortStrsDescending(S \ {MaxStr(S)})

RECURSIVE SortStrs(_)
\* cities.sort_unstable(): the keys in ascending byte-wise order.
SortStrs(S) ==
    IF S = {} THEN <<>>
    ELSE <<MinStr(S)>> \o SortStrs(S \ {MinStr(S)})

\* "{}={:.1}/{:.1}/{:.1}" of one city.
FormatCity(name, city) ==
    [name |-> name,
     min |-> Fmt1(city.min),
     avg |-> FmtAvg(city.sum, city.count),
     max |-> Fmt1(city.max)]

RECURSIVE FormatCities(_, _, _)
\* The loop of calculate over the sorted names: ", " before every entry
\* but the first.
FormatCities(result, names, first) ==
    IF names = <<>> THEN <<>>
    ELSE (IF first THEN <<>> ELSE <<", ">>)
         \o <<FormatCity(Head(names), result[Head(names)])>>
         \o FormatCities(result, Tail(names), FALSE)

\* Everything calculate writes: the sequence of the pieces written.
FormatOutput(result) ==
    Eval(LAMBDA cities :
            <<"{">> \o FormatCities(result, cities, TRUE) \o <<"}">>,
         SortStrs(DOMAIN result))

(***************************************************************************)
(* The generator's expected result (src/generator/src/main.rs)             *)
(***************************************************************************)
\* Row::value of the row a line was written from: the parse of the value
\* text "int.fraction".
RowValue(line) == ParseF32(Split(line)[2]).val
RowCity(line) == Split(line)[1]

RECURSIVE GenResults(_, _)
\* The loop of main over the rows: a new city starts with count 1 and
\* total, min and max at the row's value.
GenResults(results, rows) ==
    IF rows = <<>> THEN results
    ELSE LET city == RowCity(Head(rows))
             value == RowValue(Head(rows))
             entry == IF city \in DOMAIN results
                      THEN LET old == results[city]
                           IN  [count |-> old.count + 1,
                                total |-> F32Add(old.total, value),
                                min |-> IF old.min > value THEN value ELSE old.min,
                                max |-> IF old.max < value THEN value ELSE old.max]
                      ELSE [count |-> 1, total |-> value,
                            min |-> value, max |-> value]
         IN  GenResults([k \in DOMAIN results \cup {city} |->
                            IF k = city THEN entry ELSE results[k]],
                        Tail(rows))

RECURSIVE GenFormat(_, _, _)
GenFormat(results, names, first) ==
    IF names = <<>> THEN <<>>
    ELSE (IF first THEN <<>> ELSE <<", ">>)
         \o <<[name |-> Head(names),
               min |-> Fmt1(results[Head(names)].min),
               avg |-> FmtAvg(results[Head(names)].total,
                              results[Head(names)].count),
               max |-> Fmt1(results[Head(names)].max)]>>
         \o GenFormat(results, Tail(names), FALSE)

\* The expected-result file the generator writes for the rows, with one
\* fractional digit (the presets' fractional_digit).
GenExpected(rows) ==
    LET results == GenResults(EmptyMap, rows)
    IN  <<"{">> \o GenFormat(results, SortStrs(DOMAIN results), TRUE) \o <<"}">>

(***************************************************************************)
(* The input files of the model                                            *)
(***************************************************************************)
\* Lines of the input format `<key>;<value>`, one fractional digit.
GoodLines ==
    { <<"a", ";", "0", ".", "5">>,
      <<"b", ";", "-", "2", ".", "5">>,
      <<"a", ";", "8", "3", "8", "8", "6", "0", "8", ".", "0">> }

\* A line outside the format: a value that is no number.
BadLines == { <<"a", ";", "x">> }

LineSet == GoodLines \cup BadLines

\* A line longer than a block: its key alone fills one.
OverlongLine == [i \in 1..BLOCK_SIZE |-> "a"] \o <<";", "0", ".", "5">>

\* Last lines outside the format: no delimiter, a third field, a byte
\* outside UTF-8, more bytes than a block.
BadLastLines ==
    { <<"a", "b">>,
      <<"a", ";", "0", ".", "5", ";", "x">>,
      <<"a", ";", "1", BAD_BYTE>>,
      OverlongLine }

\* How a file ends: with nothing more, with a last line and its newline,
\* or with an unterminated line.
EndSet ==
    {<<>>, <<"b", ";", "0", ".", "5">>}
        \cup {line \o <<NL>> : line \in LineSet \cup BadLastLines}

RECURSIVE JoinLines(_)
\* The file holding the lines, each followed by a newline.
JoinLines(lines) ==
    IF lines = <<>> THEN <<>>
    ELSE Head(lines) \o <<NL>> \o JoinLines(Tail(lines))

\* The files of at most MaxLines lines, the last one included.
Files ==
    { JoinLines(lines) \o end :
        lines \in UNION { [1..n -> LineSet] : n \in 0..(MaxLines - 1) },
        end \in EndSet }

\* The value grammar -?[0-9]+(\.[0-9])? of the input format.
WellFormedValue(text) ==
    Eval(LAMBDA parts :
            /\ Len(parts) <= 2
            /\ Len(parts[1]) >= 1
            /\ AllDigits(parts[1])
            /\ Len(parts) = 2 => (Len(parts[2]) = 1 /\ AllDigits(parts[2])),
         SplitOn(IF text # <<>> /\ Head(text) = "-" THEN Tail(text) ELSE text,
                 "."))

WellFormedLine(line) ==
    /\ IsUtf8(line)
    /\ Len(line) + 1 <= BLOCK_SIZE
    /\ Eval(LAMBDA parts : Len(parts) = 2 /\ WellFormedValue(parts[2]),
            Split(line))

\* A file of the input format: every line well formed, fits a block and is
\* terminated by a newline.
WellFormed(f) ==
    /\ f = <<>> \/ f[Len(f)] = NL
    /\ Eval(LAMBDA lines :
                \A i \in 1..Len(lines) : WellFormedLine(lines[i]),
            Lines(f))

(***************************************************************************)
(* The pipeline                                                            *)
(***************************************************************************)
VARIABLES
    file,       \* the bytes of the input file
    threads,    \* Args.threads
    cursor,     \* the position of the producer's File
    ppc,        \* producer: "read", "send", "done" (returned), "panicked"
    pfault,     \* the expect that failed in the producer: "none", "io",
                \* "nl", "utf8", "send"
    pending,    \* the chunk read_from returned, being sent
    queue,      \* the chunks in the channel
    sent,       \* every chunk a send has enqueued, in order
    wpc,        \* per worker: "running", "done" (returned), "panicked"
    partial,    \* per worker: the result map of process_lines
    received,   \* per worker: the chunks its recv calls returned, in order
    cpc,        \* coordinator: "join", "done" (calculate returned), "panicked"
    joined,     \* the number of handles combine_results has joined
    result,     \* the result map of combine_results
    output      \* the pieces written to the output, in order

vars == <<file, threads, cursor, ppc, pfault, pending, queue, sent, wpc, partial,
          received, cpc, joined, result, output>>

Workers == 1..threads

\* The chunk slot when no chunk is being sent.
NoChunk == [raw_data |-> <<>>, size |-> 0]

\* calculate up to its call of combine_results: the channel is created,
\* the producer and the workers are spawned and none has run yet.
Init ==
    /\ file \in Files
    /\ threads \in 0..MaxThreads
    /\ cursor = 0
    /\ ppc = "read"
    /\ pfault = "none"
    /\ pending = NoChunk
    /\ queue = <<>>
    /\ sent = <<>>
    /\ wpc = [w \in Workers |-> "running"]
    /\ partial = [w \in Workers |-> EmptyMap]
    /\ received = [w \in Workers |-> <<>>]
    /\ cpc = "join"
    /\ joined = 0
    /\ result = EmptyMap
    /\ output = <<>>

\* The sender outliving the producer (a clone of it kept by calculate).
SenderKept == FALSE

\* The sender is dropped: produce_text_chunks has returned or unwound.
SenderDropped == ppc \in {"done", "panicked"}

\* Every receiver is dropped: the workers have ended and calculate, which
\* holds the receiver the clones were made from, has ended.
ReceiversDropped ==
    /\ cpc \in {"done", "panicked"}
    /\ \A w \in Workers : wpc[w] # "running"

\* One iteration of the loop of produce_text_chunks up to the send: the
\* call of read_from.
ProducerRead ==
    /\ ppc = "read"
    /\ \E r \in {read_from(file, cursor)} :
           /\ cursor' = r.cursor
           /\ ppc' = CASE r.tag = "Some" -> "send"
                       [] r.tag = "None" -> "done"
                       [] r.tag \in {"PanicNl", "PanicUtf8"} -> "panicked"
           /\ pfault' = CASE r.tag = "PanicNl" -> "nl"
                          [] r.tag = "PanicUtf8" -> "utf8"
                          [] OTHER -> "none"
           /\ pending' = IF r.tag = "Some" THEN r.chunk ELSE NoChunk
    /\ UNCHANGED <<file, threads, queue, sent, wpc, partial, received, cpc,
                   joined, result, output>>

\* File::open, read or seek returns Err: the expect panics.
ProducerIoFault ==
    /\ ppc = "read"
    /\ ppc' = "panicked"
    /\ pfault' = "io"
    /\ UNCHANGED <<file, threads, cursor, pending, queue, sent, wpc, partial,
                   received, cpc, joined, result, output>>

\* sender.send(chunk) on a channel without a capacity (unbounded()).
ProducerSendUnbounded ==
    /\ ppc = "send"
    /\ ~ReceiversDropped
    /\ queue' = Append(queue, pending)
    /\ sent' = Append(sent, pending)
    /\ pending' = NoChunk
    /\ ppc' = "read"
    /\ UNCHANGED <<file, threads, cursor, pfault, wpc, partial, received, cpc,
                   joined, result, output>>

\* sender.send(chunk) returns Ok: the channel has room (it blocks while the
\* channel is full).
ProducerSend ==
    /\ ppc = "send"
    /\ ~ReceiversDropped
    /\ Len(queue) < QUEUE_CAP
    /\ queue' = Append(queue, pending)
    /\ sent' = Append(sent, pending)
    /\ pending' = NoChunk
    /\ ppc' = "read"
    /\ UNCHANGED <<file, threads, cursor, pfault, wpc, partial, received, cpc,
                   joined, result, output>>

\* sender.send(chunk) returns Err, the channel being disconnected: the
\* expect panics.
ProducerSendFail ==
    /\ ppc = "send"
    /\ ReceiversDropped
    /\ ppc' = "panicked"
    /\ pfault' = "send"
    /\ pending' = NoChunk
    /\ UNCHANGED <<file, threads, cursor, queue, sent, wpc, partial,
                   received, cpc, joined, result, output>>

\* chunks.recv() returns Ok(chunk) and the worker processes the chunk's
\* lines; a failed expect ends the thread and drops its map.
WorkerRecv(w) ==
    /\ wpc[w] = "running"
    /\ queue # <<>>
    /\ \E r \in {ProcessChunk(partial[w], Head(queue))} :
           /\ queue' = Tail(queue)
           /\ received' = [received EXCEPT ![w] = Append(@, Head(queue))]
           /\ wpc' = [wpc EXCEPT ![w] = IF r.ok THEN "running" ELSE "panicked"]
           /\ partial' = [partial EXCEPT ![w] = IF r.ok THEN r.map ELSE EmptyMap]
    /\ UNCHANGED <<file, threads, cursor, ppc, pfault, pending, sent, cpc, joined,
                   result, output>>

\* The worker returning as soon as the channel is empty (try_recv in
\* place of recv).
WorkerExitOnEmpty(w) ==
    /\ wpc[w] = "running"
    /\ queue = <<>>
    /\ wpc' = [wpc EXCEPT ![w] = "done"]
    /\ UNCHANGED <<file, threads, cursor, ppc, pfault, pending, queue, sent, partial,
                   received, cpc, joined, result, output>>

\* chunks.recv() returns Err, the channel being empty and disconnected: the
\* worker returns its map.
WorkerExit(w) ==
    /\ wpc[w] = "running"
    /\ queue = <<>>
    /\ SenderDropped
    /\ wpc' = [wpc EXCEPT ![w] = "done"]
    /\ UNCHANGED <<file, threads, cursor, ppc, pfault, pending, queue, sent, partial,
                   received, cpc, joined, result, output>>

\* combine_results taking the map of a panicked worker as empty.
JoinIgnoreErr ==
    /\ cpc = "join"
    /\ joined < threads
    /\ wpc[joined + 1] # "running"
    /\ result' = Combine(result, partial[joined + 1])
    /\ joined' = joined + 1
    /\ UNCHANGED <<file, threads, cursor, ppc, pfault, pending, queue, sent,
                   wpc, partial, received, cpc, output>>

\* combine_results taking the map of the next worker without waiting for
\* the thread to end.
JoinWithoutWait ==
    /\ cpc = "join"
    /\ joined < threads
    /\ result' = Combine(result, partial[joined + 1])
    /\ joined' = joined + 1
    /\ UNCHANGED <<file, threads, cursor, ppc, pfault, pending, queue, sent,
                   wpc, partial, received, cpc, output>>

\* One iteration of the loop of combine_results: handle.join() returns once
\* the thread has ended; Err panics, Ok merges the partial into the result.
Join ==
    /\ cpc = "join"
    /\ joined < threads
    /\ wpc[joined + 1] # "running"
    /\ IF wpc[joined + 1] = "panicked"
       THEN /\ cpc' = "panicked"
            /\ UNCHANGED <<joined, result>>
       ELSE /\ result' = Combine(result, partial[joined + 1])
            /\ joined' = joined + 1
            /\ UNCHANGED cpc
    /\ UNCHANGED <<file, threads, cursor, ppc, pfault, pending, queue, sent, wpc,
                   partial, received, output>>

\* calculate joining the producer thread before it writes.
WriteOutputAfterProducer ==
    /\ cpc = "join"
    /\ joined = threads
    /\ ppc \in {"done", "panicked"}
    /\ output' = FormatOutput(result)
    /\ cpc' = "done"
    /\ UNCHANGED <<file, threads, cursor, ppc, pfault, pending, queue, sent, wpc,
                   partial, received, joined, result>>

\* combine_results has returned: calculate writes the output and returns.
WriteOutput ==
    /\ cpc = "join"
    /\ joined = threads
    /\ output' = FormatOutput(result)
    /\ cpc' = "done"
    /\ UNCHANGED <<file, threads, cursor, ppc, pfault, pending, queue, sent, wpc,
                   partial, received, joined, result>>

Next ==
    \/ ProducerRead
    \/ ProducerIoFault
    \/ ProducerSend
    \/ ProducerSendFail
    \/ \E w \in Workers : WorkerRecv(w)
    \/ \E w \in Workers : WorkerExit(w)
    \/ Join
    \/ WriteOutput

Spec == Init /\ [][Next]_vars

\* The steps of each thread. A failure of the file system
\* (ProducerIoFault) is a step of the producer that is never bound to
\* happen.
Producer == ProducerRead \/ ProducerSend \/ ProducerSendFail
Worker(w) == w \in Workers /\ (WorkerRecv(w) \/ WorkerExit(w))
Coordinator == Join \/ WriteOutput

\* The producer, the workers and the coordinator are operating-system
\* threads: a thread that can take a step does take one.
Fairness ==
    /\ WF_vars(Producer)
    /\ \A w \in 1..MaxThreads : WF_vars(Worker(w))
    /\ WF_vars(Coordinator)

\* The well-formed files among the files of the model.
WellFormedFiles == {f \in Files : WellFormed(f)}

\* The runs over the well-formed files, under fair scheduling.
WellFormedInit == Init /\ WellFormed(file)

FairSpec == WellFormedInit /\ [][Next]_vars /\ Fairness

(***************************************************************************)
(* Runs over a file of more chunks than the channel holds                  *)
(***************************************************************************)
\* A line longer than half a block: no two of them fit one block, so
\* read_from returns them one to a chunk.
LongLine == <<"b", ";", "-", "2", ".", "5">>

\* The file of QUEUE_CAP + 2 such lines.
LongFile == JoinLines([i \in 1..(QUEUE_CAP + 2) |-> LongLine])

\* calculate up to its call of combine_results, as Init, over that file.
FullQueueInit ==
    /\ file = LongFile
    /\ threads \in 0..MaxThreads
    /\ cursor = 0
    /\ ppc = "read"
    /\ pfault = "none"
    /\ pending = NoChunk
    /\ queue = <<>>
    /\ sent = <<>>
    /\ wpc = [w \in Workers |-> "running"]
    /\ partial = [w \in Workers |-> EmptyMap]
    /\ received = [w \in Workers |-> <<>>]
    /\ cpc = "join"
    /\ joined = 0
    /\ result = EmptyMap
    /\ output = <<>>

FullQueueSpec == FullQueueInit /\ [][Next]_vars

(***************************************************************************)
(* combine_results and the output as functions of the workers' maps        *)
(***************************************************************************)
\* Lines for the workers' maps: keys in every order of their bytes (an
\* upper-case key, a key that is a prefix of another), and values whose
\* f32 sums round.
FoldLines ==
    { <<"a", ";", "0", ".", "5">>,
      <<"a", ";", "8", "3", "8", "8", "6", "0", "9", ".", "0">>,
      <<"a", "b", ";", "-", "2", ".", "5">>,
      <<"B", ";", "0", ".", "5">> }

\* The maps process_lines returns for at most MaxPartLines of those lines.
PartialMaps ==
    { ProcessLines(EmptyMap, lines).map :
        lines \in UNION { [1..n -> FoldLines] : n \in 0..MaxPartLines } }

\* One worker more than the runs above have, so that three maps are merged.
FoldThreads == MaxThreads + 1

\* calculate at its call of combine_results when the producer and every
\* worker have already returned: each handle holds one of the maps. The
\* file and the chunks play no part in what follows and are left empty.
FoldInit ==
    /\ file = <<>>
    /\ threads = FoldThreads
    /\ cursor = 0
    /\ ppc = "done"
    /\ pfault = "none"
    /\ pending = NoChunk
    /\ queue = <<>>
    /\ sent = <<>>
    /\ wpc = [w \in Workers |-> "done"]
    /\ partial \in [Workers -> PartialMaps]
    /\ received = [w \in Workers |-> <<>>]
    /\ cpc = "join"
    /\ joined = 0
    /\ result = EmptyMap
    /\ output = <<>>

\* The steps of the coordinator.
FoldNext ==
    \/ Join
    \/ WriteOutput

FoldSpec == FoldInit /\ [][FoldNext]_vars

(***************************************************************************)
(* The chunks read_from has returned                                       *)
(***************************************************************************)
\* Every chunk read_from has returned so far, in order: those sent and the
\* one being sent.
Returned == IF ppc = "send" THEN Append(sent, pending) ELSE sent

\* The valid regions of a sequence of chunks.
Regions(chunks) == [i \in 1..Len(chunks) |-> Deref(chunks[i])]

\* The lines of each of a sequence of chunks.
ChunkLines(chunks) == [i \in 1..Len(chunks) |-> Lines(Deref(chunks[i]))]

\* C1 (chunk reconstruction): while read_from has not panicked, the valid
\* regions of the chunks it has returned, concatenated in order, are
\* exactly the bytes of the file before the cursor (no byte twice, none
\* skipped); once it has returned None they are the whole file.
C1_ChunkReconstruction ==
    /\ pfault \in {"none", "io"} =>
          Concat(Regions(Returned)) = SubSeq(file, 1, cursor)
    /\ ppc = "done" => Concat(Regions(Returned)) = file

\* A file of several chunks, one of them cut short of the bytes read, has
\* been read to its end.
C1_Witness ==
    /\ ppc = "done"
    /\ Len(sent) >= 2
    /\ \E i \in 1..Len(sent) : sent[i].size < Len(sent[i].raw_data)

\* C2 (chunk boundary invariant): every chunk read_from has returned, and
\* so every chunk in the channel or received by a worker, has a non-empty
\* valid region that ends with a newline, and the lines of the chunks, in
\* order, are the lines of the file before the cursor: no line is split
\* between two chunks.
C2_ChunkBoundary ==
    /\ \A i \in 1..Len(Returned) :
          /\ Returned[i].size >= 1
          /\ Returned[i].size <= Len(Returned[i].raw_data)
          /\ Returned[i].raw_data[Returned[i].size] = NL
    /\ \A i \in 1..Len(queue) : Deref(queue[i])[Len(Deref(queue[i]))] = NL
    /\ pfault \in {"none", "io"} =>
          Concat(ChunkLines(Returned)) = Lines(SubSeq(file, 1, cursor))

\* A returned chunk of two lines, cut at its last newline in the middle of
\* the bytes read.
C2_Witness ==
    \E i \in 1..Len(Returned) :
        /\ Returned[i].size < Len(Returned[i].raw_data)
        /\ Len(Lines(Deref(Returned[i]))) = 2

(***************************************************************************)
(* Runs and their results                                                  *)
(***************************************************************************)
\* calculate has returned and the producer has read the file to its end.
Success == cpc = "done" /\ ppc = "done"

\* What calculate writes when one thread processes every line of the file
\* in file order (a run with one worker).
SequentialOutput(f) == FormatOutput(ProcessLines(EmptyMap, Lines(f)).map)

\* C3 (order independence): for a well-formed file and any N >= 1, the
\* output of a successful run is the output of the one-worker run,
\* whatever chunks each worker received and in whatever order.
C3_OrderIndependence ==
    (Success /\ threads >= 1 /\ WellFormed(file)) =>
        output = SequentialOutput(file)

\* The number of elements of a sequence equal to x.
Count(seq, x) == Cardinality({i \in 1..Len(seq) : seq[i] = x})

RECURSIVE SumOver(_, _)
\* The sum of f[w] over the workers of a set.
SumOver(f, S) ==
    IF S = {} THEN 0
    ELSE LET w == CHOOSE x \in S : TRUE IN f[w] + SumOver(f, S \ {w})

\* The keys of the lines of a text: the first field of each.
KeysOf(f) == {Split(Lines(f)[i])[1] : i \in 1..Len(Lines(f))}

\* The number of lines of a text whose first field is the key.
LinesWithKey(f, key) ==
    Cardinality({i \in 1..Len(Lines(f)) : Split(Lines(f)[i])[1] = key})

\* C4 (exactly-once processing): every chunk sent is in the channel or has
\* been received by exactly one worker, as often as it was sent; in a
\* successful run with N >= 1 the channel is empty and the count of every
\* key of the result is the number of lines of the file with that key.
C4_ExactlyOnce ==
    /\ Len(sent) = Len(queue)
                    + SumOver([w \in Workers |-> Len(received[w])], Workers)
    /\ \A i \in 1..Len(sent) :
          Count(sent, sent[i]) =
              Count(queue, sent[i])
              + SumOver([w \in Workers |-> Count(received[w], sent[i])], Workers)
    /\ (Success /\ threads >= 1) =>
          /\ queue = <<>>
          /\ DOMAIN result = KeysOf(file)
          /\ \A key \in DOMAIN result :
                result[key].count = LinesWithKey(file, key)

\* A successful run in which two workers each received a chunk holding the
\* same key.
C4_Witness ==
    /\ Success
    /\ threads = 2
    /\ received[1] # <<>>
    /\ received[2] # <<>>
    /\ DOMAIN partial[1] \cap DOMAIN partial[2] # {}

\* C5 (round trip against the generator): for a well-formed file, the
\* output of the successful run of the test (one worker) is the expected
\* result the generator computes for the same rows.
C5_GeneratorRoundTrip ==
    (Success /\ threads = 1 /\ WellFormed(file)) =>
        output = GenExpected(Lines(file))

\* C6 (producer faults stop the run): once the producer has panicked in
\* read_from on a block with no newline or with invalid UTF-8, after
\* sending chunks to N >= 1 workers, no output is ever written.
C6_ProducerFaultAborts ==
    [][(/\ ppc = "panicked"
        /\ pfault \in {"nl", "utf8"}
        /\ sent # <<>>
        /\ threads >= 1
        /\ output = <<>>) => output' = <<>>]_vars

\* C7 (worker fault): while some worker has panicked, nothing has been
\* written, calculate has not returned and the join of that worker has not
\* returned Ok; the coordinator panics only at the join of a panicked
\* worker.
C7_WorkerFaultFatal ==
    /\ \A w \in Workers :
          wpc[w] = "panicked" =>
              /\ output = <<>>
              /\ cpc # "done"
              /\ joined < w
    /\ cpc = "panicked" =>
          /\ joined < threads
          /\ wpc[joined + 1] = "panicked"

\* The coordinator has panicked at the join of the second worker, after
\* joining the first, which returned normally having processed a chunk.
C7_Witness ==
    /\ cpc = "panicked"
    /\ joined = 1
    /\ wpc[1] = "done"
    /\ received[1] # <<>>
    /\ wpc[2] = "panicked"

\* C8 (extra delimiters are fatal): a worker that has received a chunk with
\* a line of more than two fields has panicked.
C8_ExtraDelimiterFatal ==
    \A w \in Workers :
        \A i \in 1..Len(received[w]) :
            LET lines == Lines(Deref(received[w][i]))
            IN  (\E j \in 1..Len(lines) : Len(Split(lines[j])) > 2) =>
                    wpc[w] = "panicked"

\* C10 (single-line file): for a file of exactly one well-formed line, a
\* successful run with N >= 1 has sent exactly one chunk and its output is
\* exactly one entry, for the line's key, whose min, average and max are
\* the line's value.
C10_SingleLine ==
    (/\ Success
     /\ threads >= 1
     /\ WellFormed(file)
     /\ Len(Lines(file)) = 1) =>
        LET key == Split(Lines(file)[1])[1]
            value == Fmt1(ParseF32(Split(Lines(file)[1])[2]).val)
        IN  /\ Len(sent) = 1
            /\ output = <<"{",
                          [name |-> key, min |-> value, avg |-> value,
                           max |-> value],
                          "}">>

\* The pipeline has ended normally: the producer has dropped its sender
\* (at the end of the input, or at a failure of the file system), every
\* worker has returned and calculate has written the output and returned.
Terminated ==
    /\ cpc = "done"
    /\ ppc = "done" \/ pfault = "io"
    /\ \A w \in Workers : wpc[w] = "done"
    /\ queue = <<>>
    /\ output # <<>>

LexLess(s, t) ==
    \E k \in 0..Min2(Len(s), Len(t)) :
        /\ \A i \in 1..k : s[i] = t[i]
        /\ \/ k = Len(s) /\ k < Len(t)
           \/ /\ k < Len(s)
              /\ k < Len(t)
              /\ ByteCode(s[k + 1]) < ByteCode(t[k + 1])

\* C11 (formatter shape): what calculate has written begins with `{` and
\* ends with `}`; between them is exactly one entry for every key of the
\* result, holding the key and its formatted min, average and max;
\* consecutive entries have `, ` between them and nothing leads or trails;
\* the keys are in strictly ascending byte-wise lexicographic order.
C11_FormatterShape ==
    output # <<>> =>
        LET n == Cardinality(DOMAIN result)
        IN  /\ Len(output) = IF n = 0 THEN 2 ELSE 2 * n + 1
            /\ output[1] = "{"
            /\ output[Len(output)] = "}"
            /\ \A i \in 1..(n - 1) : output[2 * i + 1] = ", "
            /\ {output[2 * i].name : i \in 1..n} = DOMAIN result
            /\ \A i \in 1..n :
                  LET city == result[output[2 * i].name]
                  IN  /\ output[2 * i].min = Fmt1(city.min)
                      /\ output[2 * i].avg = FmtAvg(city.sum, city.count)
                      /\ output[2 * i].max = Fmt1(city.max)
            /\ \A i \in 1..(n - 1) :
                  LexLess(output[2 * i].name, output[2 * i + 2].name)

\* An output of three entries: the upper-case key, then the key that is a
\* prefix of the third.
C11_Witness ==
    /\ Len(output) = 7
    /\ output[2].name = <<"B">>
    /\ output[4].name = <<"a">>
    /\ output[6].name = <<"a", "b">>

(***************************************************************************)
(* The coordinator and the workers                                         *)
(***************************************************************************)
\* C12 (merge only after all joins), as claimed: whenever the result
\* changes, no worker is still running.
C12_MergeAfterAllJoins ==
    [][result' # result => \A w \in Workers : wpc[w] # "running"]_vars

\* C12 as amended: the result changes only in the coordinator's loop, by
\* folding in the map of the next worker in handle order, which has
\* returned, as have all workers joined before it.
C12_MergeAfterOwnJoin ==
    [][result' # result =>
          /\ cpc = "join"
          /\ joined' = joined + 1
          /\ \A w \in 1..joined' : wpc[w] = "done"
          /\ result' = Combine(result, partial[joined'])]_vars

\* The map of the first worker has been folded into the result while the
\* second worker has not yet returned.
C12_Witness ==
    /\ threads = 2
    /\ joined = 1
    /\ result # EmptyMap
    /\ result = partial[1]
    /\ wpc[2] = "running"

(***************************************************************************)
(* The merge                                                               *)
(***************************************************************************)
RECURSIVE FoldMaps(_, _)
\* The maps of a sequence folded into acc with the combine rule, in order.
FoldMaps(acc, maps) ==
    IF maps = <<>> THEN acc
    ELSE FoldMaps(Combine(acc, Head(maps)), Tail(maps))

\* The orders of the workers' maps.
Orders == {p \in [Workers -> Workers] : \A w \in Workers : \E v \in Workers : p[v] = w}

\* C13 (merge associativity and commutativity): once every worker's map
\* is folded in, the result is what the combine rule gives for the maps in
\* any order and for any grouping of them into two intermediate merges
\* that are then merged.
C13_MergeOrderFree ==
    (joined = threads /\ threads >= 1) =>
        \A p \in Orders :
            \A k \in 0..threads :
                LET maps == [i \in 1..threads |-> partial[p[i]]]
                    first == FoldMaps(EmptyMap, SubSeq(maps, 1, k))
                    rest == FoldMaps(EmptyMap, SubSeq(maps, k + 1, threads))
                IN  Combine(first, rest) = result

(***************************************************************************)
(* The channel                                                             *)
(***************************************************************************)
\* C14 (bounded backpressure): the channel never holds more than 10
\* chunks; while it holds 10 and the producer is at its send, no step
\* enqueues a chunk and the send does not return Ok, so the next chunk is
\* enqueued only after a worker has received one.
C14_BoundedBackpressure ==
    /\ [](Len(queue) <= QUEUE_CAP)
    /\ [][(ppc = "send" /\ Len(queue) = QUEUE_CAP) =>
            /\ sent' = sent
            /\ Len(queue') <= Len(queue)
            /\ ppc' # "read"]_vars
    /\ [][Len(queue') > Len(queue) => Len(queue) < QUEUE_CAP]_vars

\* The producer is at its send with the channel full, and a worker that
\* has already received chunks can receive another.
C14_Witness ==
    /\ ppc = "send"
    /\ Len(queue) = QUEUE_CAP
    /\ threads >= 1
    /\ wpc[1] = "running"
    /\ received[1] # <<>>

\* C15 (no early worker exit): a worker returns its map only in a step
\* taken with the channel empty and the producer ended (its sender
\* dropped), and while some worker has returned no chunk is queued and the
\* producer is not reading or sending: every chunk sent has been received.
C15_NoEarlyWorkerExit ==
    /\ [][\A w \in Workers :
             (wpc[w] = "running" /\ wpc'[w] = "done") =>
                 /\ queue = <<>>
                 /\ ppc \in {"done", "panicked"}
                 /\ partial'[w] = partial[w]]_vars
    /\ []((\E w \in Workers : wpc[w] = "done") =>
             /\ queue = <<>>
             /\ ppc \in {"done", "panicked"}
             /\ Len(sent) = SumOver([w \in Workers |-> Len(received[w])],
                                    Workers))

\* A worker has returned after receiving chunks while the other, which
\* received chunks too, is still to return.
C15_Witness ==
    /\ threads = 2
    /\ wpc[1] = "done"
    /\ received[1] # <<>>
    /\ wpc[2] = "running"
    /\ received[2] # <<>>

(***************************************************************************)
(* The accumulators                                                        *)
(***************************************************************************)
\* count >= 1 and min <= sum / count <= max, without the division.
AccumulatorOk(entry) ==
    /\ entry.count >= 1
    /\ entry.min * entry.count <= entry.sum
    /\ entry.sum <= entry.max * entry.count

\* C16 (StatAccumulator invariant): every key of a worker's map and of the
\* result, after every processed line and every merge step, has
\* count >= 1 and min <= sum / count <= max.
C16_AccumulatorInvariant ==
    /\ \A w \in Workers :
          \A key \in DOMAIN partial[w] : AccumulatorOk(partial[w][key])
    /\ \A key \in DOMAIN result : AccumulatorOk(result[key])

(***************************************************************************)
(* The reader                                                              *)
(***************************************************************************)
\* C17 (cursor repositioning): a call of read_from that returns a chunk
\* leaves the cursor at its value before the call plus the chunk's valid
\* length, one byte past the chunk's last newline; the next read starts
\* with the first byte after that newline.
C17_CursorRepositioning ==
    [][(ppc = "read" /\ ppc' = "send") =>
          /\ cursor' = cursor + pending'.size
          /\ file[cursor'] = NL
          /\ Deref(pending') = SubSeq(file, cursor + 1, cursor')
          /\ cursor' < Len(file) =>
                FileRead(file, cursor')[1] = file[cursor' + 1]]_vars

\* A second chunk has been returned after a first whose block held bytes
\* past its last newline, which the seek gave back.
C17_Witness ==
    /\ ppc = "send"
    /\ Len(sent) = 1
    /\ sent[1].size < Len(sent[1].raw_data)
    /\ cursor = sent[1].size + pending.size

\* The bytes the next read returns hold no newline (and there are some).
BlockWithoutNewline ==
    /\ FileRead(file, cursor) # <<>>
    /\ \A i \in 1..Len(FileRead(file, cursor)) : FileRead(file, cursor)[i] # NL

\* C18 (alignment fault): a call of read_from whose read returns bytes
\* without a newline panics: it returns no chunk (nothing is sent or
\* about to be sent) and not the end of the input; and every chunk ever
\* returned ends with a newline of the file, so that none holds a
\* truncated line.
C18_AlignmentFault ==
    /\ [][(ppc = "read" /\ ppc' # "read" /\ pfault' # "io"
            /\ BlockWithoutNewline) =>
              /\ ppc' = "panicked"
              /\ pfault' = "nl"
              /\ pending' = NoChunk
              /\ UNCHANGED <<sent, queue>>]_vars
    /\ [](pfault = "nl" => ppc = "panicked" /\ pending = NoChunk)
    /\ [](\A i \in 1..Len(Returned) :
             LET end == Len(Concat(Regions(SubSeq(Returned, 1, i))))
             IN  end >= 1 /\ end <= Len(file) /\ file[end] = NL)

\* read_from has panicked on a full block of a line longer than a block,
\* after returning a chunk.
C18_Witness ==
    /\ pfault = "nl"
    /\ sent # <<>>
    /\ cursor < Len(file)
    /\ \A i \in (cursor - BLOCK_SIZE + 1)..cursor : file[i] = "a"

(***************************************************************************)
(* Runs without workers                                                    *)
(***************************************************************************)
\* C19 (threads = 0): there is no worker, the result stays the empty map,
\* the coordinator never panics and can write at once, wherever the
\* producer is, and what it writes is exactly `{}`.
C19_NoWorkers ==
    threads = 0 =>
        /\ Workers = {}
        /\ DOMAIN wpc = {}
        /\ joined = 0
        /\ result = EmptyMap
        /\ cpc \in {"join", "done"}
        /\ cpc = "join" => (output = <<>> /\ ENABLED WriteOutput)
        /\ cpc = "done" => output = <<"{", "}">>

\* calculate has written `{}` and returned while the producer, which has
\* sent chunks nobody receives, is still at a send.
C19_Witness ==
    /\ threads = 0
    /\ cpc = "done"
    /\ output = <<"{", "}">>
    /\ ppc = "send"
    /\ queue # <<>>
    /\ file # <<>>

(***************************************************************************)
(* Progress of the producer                                                *)
(***************************************************************************)
\* C20 (chunk length and progress of the producer): every chunk read_from
\* has returned has a valid length from 1 to BLOCK_SIZE; every call that
\* returns a chunk moves the cursor forward, never past the end of the
\* file, so there are never more chunks than bytes; and under fair
\* scheduling, with N >= 1, the producer reaches the end of the input and
\* drops its sender (unless the file system fails).
C20_ProducerProgress ==
    /\ [](\A i \in 1..Len(Returned) :
             Returned[i].size >= 1 /\ Returned[i].size <= BLOCK_SIZE)
    /\ [](cursor <= Len(file) /\ Len(Returned) <= cursor)
    /\ [][(ppc = "read" /\ ppc' = "send") => cursor' > cursor]_vars
    /\ [](ppc = "done" => (cursor = Len(file) /\ SenderDropped))
    /\ (threads >= 1) ~> (ppc = "done" \/ pfault = "io")

\* The producer has reached the end of a file of several chunks, one of
\* them of a full block.
C20_Witness ==
    /\ ppc = "done"
    /\ threads >= 1
    /\ Len(sent) >= 2
    /\ \E i \in 1..Len(sent) : sent[i].size = BLOCK_SIZE

====
